---- MODULE Spec2Model ----
(***************************************************************************)
(* Model of src/utils.py: the TimeAndMemoryTracker context manager with    *)
(* the process-wide state it drives (tracemalloc, the CUDA allocator       *)
(* statistics, the wall clock, the caller's logger), and the helpers       *)
(* set_seeds and read_csv_in_directory.                                    *)
(***************************************************************************)
EXTENDS Integers, Sequences, FiniteSets, TLC

\* ------------------------------------------------------------------------
\* Bounds of the model
\* ------------------------------------------------------------------------
MaxWork == 3
MaxDepth == 2
MaxSessions == 2
MaxEntries == 2

\* ------------------------------------------------------------------------
\* Constants of the program and value spaces
\* ------------------------------------------------------------------------
MB == 1024 * 1024

AllocUnit == MB \div 8

AllocSizes == {AllocUnit}

Trackers == {"t1", "t2"}

Unset == 0 - 1

NoExc == "none"

None == [some |-> FALSE, v |-> 0]

Some(x) == [some |-> TRUE, v |-> x]

Max(a, b) == IF a >= b THEN a ELSE b

\* f"{num/den:.2f}": the value in hundredths, correctly rounded, ties to even
Fmt2(num, den) ==
    LET n == 100 * num
        q == n \div den
        r == n % den
    IN IF 2 * r < den THEN q
       ELSE IF 2 * r > den THEN q + 1
       ELSE IF q % 2 = 0 THEN q ELSE q + 1

RECURSIVE SumSizes(_)
SumSizes(bs) == IF bs = << >> THEN 0 ELSE Head(bs).size + SumSizes(Tail(bs))

RemoveAt(s, i) == [j \in 1..(Len(s) - 1) |-> IF j < i THEN s[j] ELSE s[j + 1]]

VARIABLES
    now,         \* time.time(), in milliseconds
    trackers,    \* the fields start_time, end_time of each tracker object
    stack,       \* the open with-scopes, outermost first
    tracer,      \* tracemalloc: [tracing, peak]
    traceOwner,  \* index in stack of the scope whose entry started the trace
    blocks,      \* live host allocations: [size, traced, depth]
    cudaAvail,   \* torch.cuda.is_available()
    cuda,        \* CUDA caching allocator: [alloc, peak, cached]
    cudaCalls,   \* accelerator operations the tracker has called
    exc,         \* the exception in flight
    op,          \* the last operation performed
    entered,     \* number of scopes entered so far
    work,        \* number of steps the program's own code has taken
    last,        \* what the __exit__ call that has just returned did
    environ,     \* os.environ["PYTHONHASHSEED"]
    randomState, \* state of the random module's generator
    npState,     \* state of numpy's legacy global generator
    seedCall,    \* the most recent set_seeds call
    fs,          \* the file system under file_dir_path
    csvCall      \* the most recent read_csv_in_directory call

trackerVars == <<now, trackers, stack, tracer, traceOwner, blocks, cudaAvail,
                 cuda, cudaCalls, exc, op, entered, work, last>>

seedVars == <<environ, randomState, npState, seedCall>>

csvVars == <<fs, csvCall>>

vars == <<trackerVars, seedVars, csvVars>>

\* ------------------------------------------------------------------------
\* tracemalloc
\* ------------------------------------------------------------------------
tracemalloc_start_Restarting(t) == [tracing |-> TRUE, peak |-> 0]

\* tracemalloc.start() does nothing when tracing is already on
tracemalloc_start(t) ==
    IF t.tracing THEN t ELSE [tracing |-> TRUE, peak |-> 0]

tracemalloc_stop_Skipped(t) == t

\* tracemalloc.stop() also clears every trace collected so far
tracemalloc_stop(t) == [tracing |-> FALSE, peak |-> 0]

IsTraced(b) == b.traced

TracedCurrent(bs) == SumSizes(SelectSeq(bs, IsTraced))

\* tracemalloc.get_traced_memory() -> (current, peak); (0, 0) when not tracing
get_traced_memory(t, bs) ==
    IF t.tracing THEN <<TracedCurrent(bs), t.peak>> ELSE <<0, 0>>

\* ------------------------------------------------------------------------
\* torch.cuda
\* ------------------------------------------------------------------------
reset_peak_memory_stats_Skipped(c) == c

\* resets the peak statistic to the current one
reset_peak_memory_stats(c) == [c EXCEPT !.peak = c.alloc]

empty_cache(c) == [c EXCEPT !.cached = 0]

max_memory_allocated(c) == c.peak

get_peak_memory_usage_Unchecked ==
    <<Some(max_memory_allocated(cuda)),
      {"current_device", "max_memory_allocated"}>>

\* get_peak_memory_usage(): <<returned value, accelerator calls made>>
get_peak_memory_usage ==
    IF ~cudaAvail
    THEN <<None, {}>>
    ELSE <<Some(max_memory_allocated(cuda)),
           {"current_device", "max_memory_allocated"}>>

\* the truth value Python gives cuda_peak in "if cuda_peak:"
Truthy(x) == x.some /\ x.v # 0

\* ------------------------------------------------------------------------
\* TimeAndMemoryTracker
\* ------------------------------------------------------------------------
NoLast ==
    [valid |-> FALSE, obj |-> "t1", depth |-> 0, inExc |-> NoExc,
     outExc |-> NoExc, loggerFailed |-> FALSE, msgs |-> << >>,
     elapsed_time |-> 0, peak |-> 0, cuda_peak |-> None,
     entryClock |-> 0, exitClock |-> 0, hostHigh |-> 0, cudaHigh |-> 0,
     hadInner |-> FALSE, startWrites |-> 0, endWrites |-> 0,
     startedTrace |-> FALSE, tracingWasOn |-> FALSE, ownerHigh |-> 0]

NewSession(t) ==
    [obj |-> t, entryClock |-> now, hostHigh |-> 0, cudaHigh |-> cuda.alloc,
     hadInner |-> FALSE, startWrites |-> 1, endWrites |-> 0]

StartTime_SetOnce(old, clock) == IF old = Unset THEN clock ELSE old

\* self.start_time = time.time()
StartTime(old, clock) == clock

\* __enter__ of tracker object t
Enter(t) ==
    /\ exc = NoExc
    /\ Len(stack) < MaxDepth
    /\ entered < MaxSessions
    /\ tracer' = tracemalloc_start(tracer)
    /\ traceOwner' = IF tracer.tracing THEN traceOwner ELSE Len(stack) + 1
    /\ trackers' = [trackers EXCEPT ![t].start_time = StartTime(@, now)]
    /\ cuda' = IF cudaAvail
               THEN empty_cache(reset_peak_memory_stats(cuda))
               ELSE cuda
    /\ cudaCalls' = IF cudaAvail
                    THEN cudaCalls \cup {"reset_peak_memory_stats", "empty_cache"}
                    ELSE cudaCalls
    /\ stack' = Append(
          [i \in 1..Len(stack) |->
              [stack[i] EXCEPT
                 !.hadInner = TRUE,
                 !.startWrites = IF stack[i].obj = t THEN @ + 1 ELSE @]],
          NewSession(t))
    /\ entered' = entered + 1
    /\ op' = "enter"
    /\ last' = NoLast
    /\ UNCHANGED <<now, blocks, cudaAvail, exc, work, seedVars, csvVars>>

\* the messages __exit__ hands to logger.info, in order
ExitMessages(elapsed_time, peak, cuda_peak) ==
    << [kind |-> "Execution time", text |-> Fmt2(elapsed_time, 1000)],
       [kind |-> "CPU Memory allocated (peak)", text |-> Fmt2(peak, MB)] >>
    \o (IF Truthy(cuda_peak)
        THEN << [kind |-> "CUDA Memory allocated (peak)",
                 text |-> Fmt2(cuda_peak.v, MB)] >>
        ELSE << >>)

ExitTracer_StopAfterLogging(t, failAt) ==
    IF failAt = 0 THEN tracemalloc_stop(t) ELSE t

\* the tracer as __exit__ leaves it: stop() runs before the first logger call
ExitTracer(t, failAt) == tracemalloc_stop(t)

\* what leaves __exit__: it returns None, so the incoming exception goes on,
\* unless a logger.info call raised
ExitOutcome(inExc, loggerFailed) ==
    IF loggerFailed THEN "LoggerError" ELSE inExc

\* __exit__ of the innermost open scope; failAt = 0: every logger.info call
\* returns, failAt = k: the k-th logger.info call raises
Exit(failAt) ==
    LET n         == Len(stack)
        s         == stack[n]
        t         == s.obj
        end_time  == now
        peak      == get_traced_memory(tracer, blocks)[2]
        gp        == get_peak_memory_usage
        cuda_peak == gp[1]
        elapsed   == end_time - trackers[t].start_time
        all       == ExitMessages(elapsed, peak, cuda_peak)
        failed    == failAt \in 1..Len(all)
        sent      == IF failed THEN SubSeq(all, 1, failAt - 1) ELSE all
        out       == ExitOutcome(exc, failed)
    IN  /\ n > 0
        /\ failAt \in 0..Len(all)
        /\ trackers' = [trackers EXCEPT ![t].end_time = end_time]
        /\ tracer' = ExitTracer(tracer, failAt)
        /\ traceOwner' = IF tracer'.tracing THEN traceOwner ELSE 0
        /\ blocks' = [i \in 1..Len(blocks) |->
                        [size   |-> blocks[i].size,
                         traced |-> blocks[i].traced /\ tracer'.tracing,
                         depth  |-> IF blocks[i].depth >= n THEN n - 1
                                    ELSE blocks[i].depth]]
        /\ cudaCalls' = cudaCalls \cup gp[2]
        /\ stack' = [i \in 1..(n - 1) |->
                        [stack[i] EXCEPT
                           !.endWrites = IF stack[i].obj = t THEN @ + 1 ELSE @]]
        /\ exc' = out
        /\ op' = "exit"
        /\ last' = [valid |-> TRUE, obj |-> t, depth |-> n, inExc |-> exc,
                    outExc |-> out, loggerFailed |-> failed, msgs |-> sent,
                    elapsed_time |-> elapsed, peak |-> peak,
                    cuda_peak |-> cuda_peak,
                    entryClock |-> s.entryClock, exitClock |-> now,
                    hostHigh |-> s.hostHigh, cudaHigh |-> s.cudaHigh,
                    hadInner |-> s.hadInner,
                    startWrites |-> s.startWrites,
                    endWrites |-> s.endWrites + 1,
                    startedTrace |-> (traceOwner = n),
                    tracingWasOn |-> tracer.tracing,
                    ownerHigh |-> IF traceOwner \in 1..n
                                  THEN stack[traceOwner].hostHigh ELSE 0]
        /\ UNCHANGED <<now, cudaAvail, cuda, entered, work, seedVars, csvVars>>

\* ------------------------------------------------------------------------
\* The wrapped work and the code around the scopes
\* ------------------------------------------------------------------------
Running == exc = NoExc

Working == Running /\ work < MaxWork

LiveFrom(bs, k) == SumSizes(SelectSeq(bs, LAMBDA b : b.depth >= k))

\* the program allocates a host buffer of sz bytes
HostAlloc(sz) ==
    /\ Working
    /\ blocks' = Append(blocks, [size |-> sz, traced |-> tracer.tracing,
                                 depth |-> Len(stack)])
    /\ tracer' = IF tracer.tracing
                 THEN [tracer EXCEPT !.peak = Max(@, TracedCurrent(blocks'))]
                 ELSE tracer
    /\ stack' = [i \in 1..Len(stack) |->
                    [stack[i] EXCEPT !.hostHigh = Max(@, LiveFrom(blocks', i))]]
    /\ op' = "work"
    /\ work' = work + 1
    /\ last' = NoLast
    /\ UNCHANGED <<now, trackers, traceOwner, cudaAvail, cuda, cudaCalls, exc, entered, seedVars,
                   csvVars>>

\* the program frees its i-th live host buffer
HostFree(i) ==
    /\ Working
    /\ i \in 1..Len(blocks)
    /\ blocks' = RemoveAt(blocks, i)
    /\ op' = "work"
    /\ work' = work + 1
    /\ last' = NoLast
    /\ UNCHANGED <<now, trackers, stack, tracer, traceOwner, cudaAvail, cuda,
                   cudaCalls, exc, entered, seedVars,
                   csvVars>>

\* the program allocates sz bytes on the device
CudaAlloc(sz) ==
    /\ Working
    /\ cudaAvail
    /\ cuda' = [alloc  |-> cuda.alloc + sz,
                peak   |-> Max(cuda.peak, cuda.alloc + sz),
                cached |-> IF cuda.cached >= sz THEN cuda.cached - sz ELSE 0]
    /\ stack' = [i \in 1..Len(stack) |->
                    [stack[i] EXCEPT !.cudaHigh = Max(@, cuda'.alloc)]]
    /\ op' = "work"
    /\ work' = work + 1
    /\ last' = NoLast
    /\ UNCHANGED <<now, trackers, tracer, traceOwner, blocks, cudaAvail,
                   cudaCalls, exc, entered, seedVars,
                   csvVars>>

\* the program releases sz bytes on the device; the allocator caches them
CudaFree(sz) ==
    /\ Working
    /\ cudaAvail
    /\ cuda.alloc >= sz
    /\ cuda' = [cuda EXCEPT !.alloc = @ - sz, !.cached = @ + sz]
    /\ op' = "work"
    /\ work' = work + 1
    /\ last' = NoLast
    /\ UNCHANGED <<now, trackers, stack, tracer, traceOwner, blocks, cudaAvail,
                   cudaCalls, exc, entered, seedVars,
                   csvVars>>

\* wall-clock time passes
Tick ==
    /\ Working
    /\ now' = now + 1
    /\ op' = "work"
    /\ work' = work + 1
    /\ last' = NoLast
    /\ UNCHANGED <<trackers, stack, tracer, traceOwner, blocks, cudaAvail, cuda,
                   cudaCalls, exc, entered, seedVars,
                   csvVars>>

\* the wrapped work raises
Raise ==
    /\ Running
    /\ Len(stack) > 0
    /\ exc' = "WorkError"
    /\ op' = "raise"
    /\ last' = NoLast
    /\ UNCHANGED <<now, trackers, stack, tracer, traceOwner, blocks, cudaAvail,
                   cuda, cudaCalls, entered, work,
                   seedVars, csvVars>>

\* code around a with-statement catches the exception that left it
Handle ==
    /\ exc # NoExc
    /\ op = "exit"
    /\ exc' = NoExc
    /\ op' = "handle"
    /\ last' = NoLast
    /\ UNCHANGED <<now, trackers, stack, tracer, traceOwner, blocks, cudaAvail,
                   cuda, cudaCalls, entered, work,
                   seedVars, csvVars>>

\* ------------------------------------------------------------------------
\* set_seeds
\* ------------------------------------------------------------------------
\* Python integers are unbounded: the value q * Base + r, 0 <= r < Base
Base == 256 * 256

IntVal(q, r) == [q |-> q, r |-> r]

SeedTypes == {"int", "bool", "numpy.int64", "float", "str", "NoneType"}

\* -1, 0, 42, 2**32 - 1, 2**32, True, False, numpy.int64(42), 42.0, "42", None
SeedInputs ==
    {[type |-> "int", val |-> IntVal(-1, Base - 1)],
     [type |-> "int", val |-> IntVal(0, 0)],
     [type |-> "int", val |-> IntVal(0, 42)],
     [type |-> "int", val |-> IntVal(Base - 1, Base - 1)],
     [type |-> "int", val |-> IntVal(Base, 0)],
     [type |-> "bool", val |-> IntVal(0, 1)],
     [type |-> "bool", val |-> IntVal(0, 0)],
     [type |-> "numpy.int64", val |-> IntVal(0, 42)],
     [type |-> "float", val |-> IntVal(0, 42)],
     [type |-> "str", val |-> IntVal(0, 42)],
     [type |-> "NoneType", val |-> IntVal(0, 0)]}

Abs(v) ==
    IF v.q >= 0 THEN v
    ELSE IF v.r = 0 THEN IntVal(-v.q, 0)
    ELSE IntVal(-v.q - 1, Base - v.r)

\* str(seed_value): bool prints as True / False, int in decimal
Str(seed) ==
    [text |-> IF seed.type = "bool"
              THEN (IF seed.val.r = 1 THEN "True" ELSE "False")
              ELSE "decimal",
     val  |-> seed.val]

IsInstanceInt_AnyNumber(seed) ==
    seed.type \in {"int", "bool", "numpy.int64", "float"}

\* isinstance(seed_value, int): bool is a subclass of int
IsInstanceInt(seed) == seed.type \in {"int", "bool"}

\* numpy's legacy seeding accepts 0 <= seed <= 2**32 - 1
NumpyAccepts(v) == v.q >= 0 /\ v.q <= Base - 1

NoSeedState == [set |-> FALSE, val |-> IntVal(0, 0)]

NoEnviron == [text |-> "unset", val |-> IntVal(0, 0)]

\* set_seeds(seed_value)
set_seeds(seed) ==
    /\ IF IsInstanceInt(seed)
       THEN /\ environ' = Str(seed)
            /\ randomState' = [set |-> TRUE, val |-> Abs(seed.val)]
            /\ IF NumpyAccepts(seed.val)
               THEN /\ npState' = [set |-> TRUE, val |-> seed.val]
                    /\ seedCall' = [valid |-> TRUE, seed |-> seed,
                                    raised |-> NoExc, by |-> "none",
                                    environ |-> environ, random |-> randomState,
                                    np |-> npState]
               ELSE /\ npState' = npState
                    /\ seedCall' = [valid |-> TRUE, seed |-> seed,
                                    raised |-> "ValueError", by |-> "numpy",
                                    environ |-> environ, random |-> randomState,
                                    np |-> npState]
       ELSE /\ seedCall' = [valid |-> TRUE, seed |-> seed,
                            raised |-> "ValueError", by |-> "set_seeds",
                            environ |-> environ, random |-> randomState,
                            np |-> npState]
            /\ UNCHANGED <<environ, randomState, npState>>
    /\ UNCHANGED <<trackerVars, csvVars>>

\* ------------------------------------------------------------------------
\* read_csv_in_directory
\* ------------------------------------------------------------------------
\* a.csv, b.csv, .csv, csv, a.CSV, a.json, given character by character
Names ==
    {<<"a", ".", "c", "s", "v">>,
     <<"b", ".", "c", "s", "v">>,
     <<".", "c", "s", "v">>,
     <<"c", "s", "v">>,
     <<"a", ".", "C", "S", "V">>,
     <<"a", ".", "j", "s", "o", "n">>}

\* what a name in the directory is: a file pandas parses, an empty file
\* (pandas raises EmptyDataError), or a subdirectory
EntryKinds == {"file", "emptyfile", "dir"}

Absent == "absent"

EndsWith_AnyCsv(name, suffix) ==
    /\ Len(name) >= Len(suffix) - 1
    /\ SubSeq(name, Len(name) - Len(suffix) + 2, Len(name)) = Tail(suffix)

\* str.endswith
EndsWith(name, suffix) ==
    /\ Len(name) >= Len(suffix)
    /\ SubSeq(name, Len(name) - Len(suffix) + 1, Len(name)) = suffix

DotCsv == <<".", "c", "s", "v">>

\* [file for file in os.listdir(file_dir_path) if file.endswith(".csv")]
CsvFiles(entries) ==
    {n \in Names : entries[n] # Absent /\ EndsWith(n, DotCsv)}

NoCsvCall == [valid |-> FALSE, outcome |-> "none", message |-> "none", read |-> {}]

CsvResult(outcome, message, read) ==
    [valid |-> TRUE, outcome |-> outcome, message |-> message, read |-> read]

\* pd.read_csv on the one entry found
PdReadCsv(entries, n) ==
    IF entries[n] = "file" THEN CsvResult("DataFrame", "none", {n})
    ELSE IF entries[n] = "emptyfile"
    THEN CsvResult("EmptyDataError", "No columns to parse from file", {n})
    ELSE CsvResult("IsADirectoryError", "Is a directory", {})

\* read_csv_in_directory(file_dir_path)
read_csv_in_directory ==
    /\ csvCall' =
         IF fs.kind = "missing"
         THEN CsvResult("FileNotFoundError", "Directory does not exist", {})
         ELSE IF fs.kind = "file"
         THEN CsvResult("NotADirectoryError", "Not a directory", {})
         ELSE LET csv_files == CsvFiles(fs.entries)
              IN IF csv_files = {}
                 THEN CsvResult("ValueError", "No CSV file found in directory", {})
                 ELSE IF Cardinality(csv_files) > 1
                 THEN CsvResult("ValueError",
                                "Multiple CSV files found in directory", {})
                 ELSE PdReadCsv(fs.entries, CHOOSE n \in csv_files : TRUE)
    /\ UNCHANGED <<fs, trackerVars, seedVars>>

NoEntries == [n \in Names |-> Absent]

Present(entries) == {n \in Names : entries[n] # Absent}

\* the path comes into being as a directory or as a plain file, or goes away
SetPath(k) ==
    /\ k \in {"missing", "file", "dir"}
    /\ k # fs.kind
    /\ fs.kind = "missing" \/ k = "missing"
    /\ fs.entries = NoEntries
    /\ fs' = [fs EXCEPT !.kind = k]
    /\ csvCall' = NoCsvCall
    /\ UNCHANGED <<trackerVars, seedVars>>

\* an entry named n of kind k is created in the directory
CreateEntry(n, k) ==
    /\ fs.kind = "dir"
    /\ fs.entries[n] = Absent
    /\ Cardinality(Present(fs.entries)) < MaxEntries
    /\ fs' = [fs EXCEPT !.entries[n] = k]
    /\ csvCall' = NoCsvCall
    /\ UNCHANGED <<trackerVars, seedVars>>

\* the entry named n is removed from the directory
RemoveEntry(n) ==
    /\ fs.kind = "dir"
    /\ fs.entries[n] # Absent
    /\ fs' = [fs EXCEPT !.entries[n] = Absent]
    /\ csvCall' = NoCsvCall
    /\ UNCHANGED <<trackerVars, seedVars>>

InitTracker ==
    /\ now = 0
    /\ trackers = [t \in Trackers |-> [start_time |-> Unset, end_time |-> Unset]]
    /\ stack = << >>
    /\ tracer = [tracing |-> FALSE, peak |-> 0]
    /\ traceOwner = 0
    /\ blocks = << >>
    /\ cudaAvail \in BOOLEAN
    /\ cuda = [alloc |-> 0, peak |-> 0, cached |-> 0]
    /\ cudaCalls = {}
    /\ exc = NoExc
    /\ op = "init"
    /\ entered = 0
    /\ work = 0
    /\ last = NoLast

InitSeeds ==
    /\ environ = NoEnviron
    /\ randomState = NoSeedState
    /\ npState = NoSeedState
    /\ seedCall = [valid |-> FALSE, seed |-> [type |-> "NoneType", val |-> IntVal(0, 0)],
                   raised |-> NoExc, by |-> "none", environ |-> NoEnviron,
                   random |-> NoSeedState, np |-> NoSeedState]

InitCsv ==
    /\ fs = [kind |-> "missing", entries |-> NoEntries]
    /\ csvCall = NoCsvCall

Init == InitTracker /\ InitSeeds /\ InitCsv

EnterStep == \E t \in Trackers : Enter(t)

ExitStep == \E failAt \in 0..3 : Exit(failAt)

HostAllocStep == \E sz \in AllocSizes : HostAlloc(sz)

HostFreeStep == \E i \in 1..MaxWork : HostFree(i)

CudaAllocStep == \E sz \in AllocSizes : CudaAlloc(sz)

CudaFreeStep == \E sz \in AllocSizes : CudaFree(sz)

Next ==
    \/ EnterStep
    \/ ExitStep
    \/ HostAllocStep
    \/ HostFreeStep
    \/ CudaAllocStep
    \/ CudaFreeStep
    \/ Tick
    \/ Raise
    \/ Handle

Spec == Init /\ [][Next]_vars

SetSeedsStep == \E seed \in SeedInputs : set_seeds(seed)

NextSeeds == SetSeedsStep

SpecSeeds == Init /\ [][NextSeeds]_vars

SetPathStep == \E k \in {"missing", "file", "dir"} : SetPath(k)

CreateEntryStep == \E n \in Names, k \in EntryKinds : CreateEntry(n, k)

RemoveEntryStep == \E n \in Names : RemoveEntry(n)

NextCsv ==
    \/ read_csv_in_directory
    \/ SetPathStep
    \/ CreateEntryStep
    \/ RemoveEntryStep

SpecCsv == Init /\ [][NextCsv]_vars

\* ------------------------------------------------------------------------
\* Properties of TimeAndMemoryTracker
\* ------------------------------------------------------------------------
Kinds(msgs) == [i \in 1..Len(msgs) |-> msgs[i].kind]

\* the messages due for the metrics available: the accelerator's whenever an
\* accelerator is present
DueKinds ==
    <<"Execution time", "CPU Memory allocated (peak)">>
    \o (IF cudaAvail THEN <<"CUDA Memory allocated (peak)">> ELSE << >>)

JustExited == op = "exit" /\ last.valid

\* C1: when the wrapped work fails, __exit__ emits the messages for every
\* available metric and the same failure then leaves the with-statement,
\* neither suppressed nor replaced.
C1_FailureReportedAndUnchanged ==
    (JustExited /\ last.inExc # NoExc)
        => /\ Kinds(last.msgs) = DueKinds
           /\ last.outExc = last.inExc

\* C2: tracing is off whenever no scope is open and right after every
\* __exit__, on the normal and on the failure path; it is on throughout a
\* scope that has no nested scope; a scope entered at top level starts with
\* an empty trace.
C2_TracingExactlyDuringScope ==
    /\ (Len(stack) = 0 => ~tracer.tracing)
    /\ (op = "exit" => ~tracer.tracing)
    /\ ((Len(stack) = 1 /\ ~stack[1].hadInner) => tracer.tracing)
    /\ ((op = "enter" /\ Len(stack) = 1)
           => /\ tracer = [tracing |-> TRUE, peak |-> 0]
              /\ TracedCurrent(blocks) = 0
              /\ traceOwner = 1)

\* a second top-level scope has just closed on a failure, tracing off
C2_Witness ==
    /\ JustExited
    /\ entered = 2
    /\ last.depth = 1
    /\ last.inExc = "WorkError"
    /\ ~tracer.tracing

\* C3: after work that completes normally, with a logger that accepts every
\* message, the logger has received the elapsed-time message, the host-memory
\* message and, whenever an accelerator is present, the accelerator message,
\* once each and in that order.
C3_MessagesOnNormalExit ==
    (JustExited /\ last.inExc = NoExc /\ ~last.loggerFailed)
        => Kinds(last.msgs) = DueKinds

\* C4: without an accelerator the tracker calls no accelerator operation,
\* computes no accelerator peak and emits no accelerator message.
C4_NoAcceleratorNoCalls ==
    ~cudaAvail
        => /\ cudaCalls = {}
           /\ cuda = [alloc |-> 0, peak |-> 0, cached |-> 0]
           /\ JustExited
                 => /\ ~last.cuda_peak.some
                    /\ \A i \in 1..Len(last.msgs) :
                          last.msgs[i].kind # "CUDA Memory allocated (peak)"

\* a whole session has run without an accelerator and reported twice
C4_Witness ==
    /\ ~cudaAvail
    /\ JustExited
    /\ Len(last.msgs) = 2
    /\ Len(stack) = 0

C6_TimesWrittenOnce ==
    JustExited
        => /\ last.startWrites = 1
           /\ last.endWrites = 1
           /\ last.elapsed_time = last.exitClock - last.entryClock

\* C6: the same, for every session whose tracker object was not entered
\* again while the session was open.
C6_TimesWrittenOnceUnlessReentered ==
    (JustExited /\ last.startWrites = 1)
        => /\ last.endWrites = 1
           /\ last.elapsed_time = last.exitClock - last.entryClock
           /\ trackers[last.obj].start_time = last.entryClock
           /\ trackers[last.obj].end_time = last.exitClock

\* one tracker object has served two successive scopes, time passing in each
C6_Witness ==
    /\ JustExited
    /\ entered = 2
    /\ last.depth = 1
    /\ last.startWrites = 1
    /\ \E t \in Trackers : trackers[t].start_time = Unset
    /\ last.entryClock > 0
    /\ last.elapsed_time > 0

\* C9 as stated: the host peak an inner session reports is the peak of the
\* allocations made inside the inner scope.
C9_InnerPeakIsInnerOnly ==
    (JustExited /\ last.depth >= 2) => last.peak = last.hostHigh

\* C9: the host peak an inner session reports is the tracer's peak since the
\* entry that started the trace; when that was the outer entry it covers the
\* outer scope's allocations too, and an exit that finds tracing already
\* stopped reports zero.
C9_InnerPeakSinceTraceStart ==
    JustExited
        => /\ last.depth >= 2
                => /\ last.tracingWasOn => last.peak = last.ownerHigh
                   /\ last.startedTrace => last.peak = last.hostHigh
                   /\ last.peak >= last.hostHigh \/ ~last.tracingWasOn
           /\ ~last.tracingWasOn => last.peak = 0

\* an inner session has just reported more than was allocated inside it
C9_Witness ==
    /\ JustExited
    /\ last.depth = 2
    /\ last.tracingWasOn
    /\ ~last.startedTrace
    /\ last.peak > last.hostHigh

\* C10: when a logger.info call raises inside __exit__, the peak has already
\* been read from the running trace and tracing is already off.
C10_TracerStoppedBeforeLogging ==
    (JustExited /\ last.loggerFailed)
        => /\ ~tracer.tracing
           /\ tracer.peak = 0
           /\ last.tracingWasOn => last.peak = last.ownerHigh
           /\ last.outExc = "LoggerError"

\* the first logger.info call has raised after a trace with a nonzero peak
C10_Witness ==
    /\ JustExited
    /\ last.loggerFailed
    /\ last.msgs = << >>
    /\ last.peak > 0
    /\ ~tracer.tracing

\* ------------------------------------------------------------------------
\* Properties of set_seeds
\* ------------------------------------------------------------------------
\* the seed is a Python int (bool included)
IsIntegerSeed(seed) == seed.type = "int" \/ seed.type = "bool"

SeedsAllSet(c) ==
    /\ c.raised = NoExc
    /\ environ.text # "unset" /\ environ.val = c.seed.val
    /\ randomState = [set |-> TRUE, val |-> Abs(c.seed.val)]
    /\ npState = [set |-> TRUE, val |-> c.seed.val]

SeedsNoneChanged(c) ==
    /\ c.raised = "ValueError"
    /\ environ = c.environ
    /\ randomState = c.random
    /\ npState = c.np

\* C7 as stated: a non-integer seed raises ValueError and changes nothing;
\* every integer seed sets PYTHONHASHSEED, the random state and the NumPy
\* state and raises nothing.
C7_EveryIntegerSeedAccepted ==
    seedCall.valid
        => IF IsIntegerSeed(seedCall.seed)
           THEN SeedsAllSet(seedCall)
           ELSE SeedsNoneChanged(seedCall)

\* C7: a seed that is not a Python int raises ValueError and changes nothing;
\* an int seed in 0 .. 2**32 - 1 sets all three and raises nothing; an int
\* seed outside that range sets PYTHONHASHSEED and the random state and then
\* NumPy raises ValueError, its state unchanged.
C7_IntegerSeedInNumpyRange ==
    seedCall.valid
        => IF ~IsIntegerSeed(seedCall.seed)
           THEN SeedsNoneChanged(seedCall) /\ seedCall.by = "set_seeds"
           ELSE IF seedCall.seed.val.q \in 0..65535
           THEN SeedsAllSet(seedCall)
           ELSE /\ seedCall.raised = "ValueError"
                /\ seedCall.by = "numpy"
                /\ environ.val = seedCall.seed.val
                /\ randomState = [set |-> TRUE, val |-> Abs(seedCall.seed.val)]
                /\ npState = seedCall.np

\* set_seeds(-1) has raised after an earlier accepted seed: the NumPy state
\* is still the earlier one
C7_Witness ==
    /\ seedCall.valid
    /\ seedCall.seed = [type |-> "int", val |-> IntVal(-1, Base - 1)]
    /\ seedCall.raised = "ValueError"
    /\ npState.set
    /\ randomState.val = IntVal(0, 1)

\* ------------------------------------------------------------------------
\* Properties of read_csv_in_directory
\* ------------------------------------------------------------------------
CsvNamed ==
    {<<"a", ".", "c", "s", "v">>, <<"b", ".", "c", "s", "v">>,
     <<".", "c", "s", "v">>}

CsvNamedFiles ==
    {n \in CsvNamed : fs.entries[n] = "file" \/ fs.entries[n] = "emptyfile"}

CsvNamedEntries == {n \in CsvNamed : fs.entries[n] # Absent}

\* C8 as stated: a dataframe is returned exactly when the directory exists
\* and holds exactly one file named *.csv; FileNotFoundError for a missing
\* path, ValueError for no such file and for more than one; no file is read
\* when an error is raised.
C8_DataFrameIffOneCsvFile ==
    csvCall.valid
        => /\ csvCall.outcome = "DataFrame"
                <=> (fs.kind = "dir" /\ Cardinality(CsvNamedFiles) = 1)
           /\ fs.kind = "missing" => csvCall.outcome = "FileNotFoundError"
           /\ (fs.kind = "dir" /\ CsvNamedFiles = {})
                 => csvCall.outcome = "ValueError"
           /\ (fs.kind = "dir" /\ Cardinality(CsvNamedFiles) > 1)
                 => csvCall.outcome = "ValueError"
           /\ csvCall.outcome # "DataFrame" => csvCall.read = {}

\* C8: a dataframe is returned exactly when the path is a directory with
\* exactly one entry named *.csv and that entry is a file pandas can parse;
\* FileNotFoundError for a missing path, ValueError when no entry is named
\* *.csv and when more than one is; no file is read in these three cases.
C8_DataFrameIffOneParsableCsvEntry ==
    csvCall.valid
        => /\ csvCall.outcome = "DataFrame"
                <=> /\ fs.kind = "dir"
                    /\ Cardinality(CsvNamedEntries) = 1
                    /\ \A n \in CsvNamedEntries : fs.entries[n] = "file"
           /\ csvCall.outcome = "DataFrame" => csvCall.read = CsvNamedEntries
           /\ fs.kind = "missing" => csvCall.outcome = "FileNotFoundError"
           /\ (fs.kind = "dir" /\ CsvNamedEntries = {})
                 => csvCall.outcome = "ValueError"
           /\ (fs.kind = "dir" /\ Cardinality(CsvNamedEntries) > 1)
                 => csvCall.outcome = "ValueError"
           /\ csvCall.outcome \in {"FileNotFoundError", "ValueError"}
                 => csvCall.read = {}

\* the one *.csv file has been read from a directory that also holds an
\* entry that is not named *.csv
C8_Witness ==
    /\ csvCall.valid
    /\ csvCall.outcome = "DataFrame"
    /\ Cardinality(csvCall.read) = 1
    /\ Present(fs.entries) # CsvNamedEntries

====
